---- MODULE Spec2Model ----
(***************************************************************************)
(* The "Wisdom of the Crowds" cells of 00_ensemble_methods_STARTER.ipynb:  *)
(* the cell that averages a list of guesses and counts the guesses that    *)
(* are closer to the true weight than the average, and the histogram cell  *)
(* that renders the kernel's current values.                               *)
(*                                                                         *)
(* Guesses are integers near the true weight; a float is modelled as an    *)
(* exact rational in lowest terms (or NaN).  For these inputs every sum is *)
(* an exactly representable integer, a tie between two deviations can only *)
(* happen at an integer average, and two different deviations differ by at *)
(* least 1/len, so the float64 comparisons of the code agree with the      *)
(* exact ones.                                                             *)
(***************************************************************************)
EXTENDS Integers, Sequences, FiniteSets

VARIABLES
    bound,            \* names bound in the kernel's namespace
    list_of_guesses,  \* kernel global
    average_guess,    \* kernel global, a float
    winner_count,     \* kernel global, an int
    idx,              \* position of the for loop's iterator, 0 outside the loop
    pc,               \* statement of the running cell, "idle" when none runs
    out,              \* output area of the wisdom-of-the-crowds cell
    hist,             \* output area of the histogram cell
    runs              \* executions of the wisdom-of-the-crowds cell so far

vars == <<bound, list_of_guesses, average_guess, winner_count, idx, pc, out,
          hist, runs>>

(* ------------------------------ bounds --------------------------------- *)

MaxLen == 3

MaxRuns == 2

(* The true weight the cells compare against. *)
TrueWeight == 1355

(* What a player may type into the list. *)
GuessValues == {1354, 1355, 1356, 1359}

RECURSIVE SeqsUpTo(_)
SeqsUpTo(n) ==
    IF n = 0 THEN {<< >>}
    ELSE LET shorter == SeqsUpTo(n - 1)
         IN  shorter \cup {Append(s, v) : s \in {t \in shorter : Len(t) = n - 1},
                                          v \in GuessValues}

GuessLists == SeqsUpTo(MaxLen)

(* ------------------------------ floats --------------------------------- *)

Abs(x) == IF x < 0 THEN -x ELSE x

RECURSIVE Gcd(_, _)
Gcd(a, b) == IF b = 0 THEN a ELSE Gcd(b, a % b)

NaN == [nan |-> TRUE, num |-> 0, den |-> 0]

Float(n) == [nan |-> FALSE, num |-> n, den |-> 1]

(* Variant: a division that answers 0 for an empty denominator. *)
FloatDivZeroSafe(a, b) ==
    IF b = 0 THEN [nan |-> FALSE, num |-> 0, den |-> 1]
    ELSE LET g == Gcd(Abs(a), b)
         IN  [nan |-> FALSE, num |-> a \div g, den |-> b \div g]

(* Float division: x / 0 is nan (numpy only warns), otherwise the quotient. *)
FloatDiv(a, b) ==
    IF b = 0 THEN NaN
    ELSE LET g == Gcd(Abs(a), b)
         IN  [nan |-> FALSE, num |-> a \div g, den |-> b \div g]

(* f - n for a float f and an int n; nan stays nan. *)
FloatSubInt(f, n) ==
    IF f.nan THEN NaN ELSE [nan |-> FALSE, num |-> f.num - n * f.den, den |-> f.den]

FloatAbs(f) == IF f.nan THEN NaN ELSE [nan |-> FALSE, num |-> Abs(f.num), den |-> f.den]

(* Variant: a comparison that also accepts equality. *)
IntLessEqFloat(n, f) == IF f.nan THEN FALSE ELSE n * f.den <= f.num

(* n < f for an int n and a float f; every comparison with nan is False. *)
IntLessFloat(n, f) == IF f.nan THEN FALSE ELSE n * f.den < f.num

(* Variant: a summation that starts at the second element. *)
RECURSIVE NpSumSkipsFirst(_)
NpSumSkipsFirst(s) ==
    IF Len(s) <= 1 THEN 0
    ELSE NpSumSkipsFirst(SubSeq(s, 1, Len(s) - 1)) + s[Len(s)]

(* np.sum over the list, left to right. *)
RECURSIVE NpSum(_)
NpSum(s) == IF s = << >> THEN 0 ELSE NpSum(SubSeq(s, 1, Len(s) - 1)) + s[Len(s)]

(* Variant: np.sum called where np.mean was meant. *)
NpSumAsMean(s) == Float(NpSum(s))

(* Variant: a mean that divides by one more than the number of elements. *)
NpMeanOffByOne(s) == FloatDiv(NpSum(s), Len(s) + 1)

(* np.mean: the sum of the elements divided by their number. *)
NpMean(s) == FloatDiv(NpSum(s), Len(s))

(* np.round(x, 0): round half to even. *)
NpRound0(f) ==
    IF f.nan THEN NaN
    ELSE LET q == f.num \div f.den
             r == f.num % f.den
         IN  IF 2 * r < f.den THEN Float(q)
             ELSE IF 2 * r > f.den THEN Float(q + 1)
             ELSE IF q % 2 = 0 THEN Float(q) ELSE Float(q + 1)

(* Variant: a test that counts a guess exactly as close as the average. *)
IsCloserOrTied(guess, avg) ==
    IntLessEqFloat(Abs(guess - TrueWeight), FloatAbs(FloatSubInt(avg, TrueWeight)))

(* Variant: a test that forgets the abs() around the guess's deviation. *)
IsCloserNoAbs(guess, avg) ==
    IntLessFloat(guess - TrueWeight, FloatAbs(FloatSubInt(avg, TrueWeight)))

(* The test of the if statement in the loop. *)
IsCloser(guess, avg) ==
    IntLessFloat(Abs(guess - TrueWeight), FloatAbs(FloatSubInt(avg, TrueWeight)))

(* The winners the loop counts among the first n guesses. *)
RECURSIVE CountWinners(_, _, _)
CountWinners(guesses, avg, n) ==
    IF n = 0 THEN 0
    ELSE CountWinners(guesses, avg, n - 1)
         + (IF IsCloser(guesses[n], avg) THEN 1 ELSE 0)

(* The cell as a function of the list typed into it: the average, the      *)
(* winner count and the fraction it prints (nan: no fraction is printed).  *)
CrowdCell(guesses) ==
    LET avg == NpMean(guesses)
        cnt == CountWinners(guesses, avg, Len(guesses))
    IN  [average |-> avg,
         count |-> cnt,
         fraction |-> IF Len(guesses) = 0 THEN NaN
                      ELSE NpRound0(FloatDiv(cnt, Len(guesses)))]

(* ------------------------------ output --------------------------------- *)

Line(k, v) == [kind |-> k, val |-> v]

(* plt.hist: the bars of the figure show how often each value occurs. *)
Bars(s) == [v \in GuessValues |-> Cardinality({i \in 1..Len(s) : s[i] = v})]

(* The figure of the histogram cell; run is the execution of the crowd cell  *)
(* it was drawn after.                                                     *)
NoFigure == [kind |-> "none", title |-> 0, data |-> Bars(<< >>), avgline |-> NaN,
             run |-> 0]

(* ------------------------------ the cells ------------------------------ *)

Init ==
    /\ bound = {}
    /\ list_of_guesses = << >>
    /\ average_guess = NaN
    /\ winner_count = 0
    /\ idx = 0
    /\ pc = "idle"
    /\ out = << >>
    /\ hist = NoFigure
    /\ runs = 0

(* The player fills in the list and runs the cell: the output area is      *)
(* cleared and the first statement binds list_of_guesses.                  *)
RunCrowdCell ==
    /\ pc = "idle"
    /\ runs < MaxRuns
    /\ \E guesses \in GuessLists : list_of_guesses' = guesses
    /\ bound' = bound \cup {"list_of_guesses"}
    /\ out' = << >>
    /\ runs' = runs + 1
    /\ pc' = "mean"
    /\ UNCHANGED <<average_guess, winner_count, idx, hist>>

CalcAverage ==
    /\ pc = "mean"
    /\ average_guess' = NpMean(list_of_guesses)
    /\ bound' = bound \cup {"average_guess"}
    /\ pc' = "count"
    /\ UNCHANGED <<list_of_guesses, winner_count, idx, out, hist, runs>>

(* Variant: the counter is not reset when it is already bound. *)
InitCountKeeps ==
    /\ pc = "count"
    /\ winner_count' = IF "winner_count" \in bound THEN winner_count ELSE 0
    /\ bound' = bound \cup {"winner_count"}
    /\ idx' = 1
    /\ pc' = "loop"
    /\ UNCHANGED <<list_of_guesses, average_guess, out, hist, runs>>

InitCount ==
    /\ pc = "count"
    /\ winner_count' = 0
    /\ bound' = bound \cup {"winner_count"}
    /\ idx' = 1
    /\ pc' = "loop"
    /\ UNCHANGED <<list_of_guesses, average_guess, out, hist, runs>>

(* Variant: a winner is counted but not announced. *)
LoopBodySilent ==
    /\ pc = "loop"
    /\ idx <= Len(list_of_guesses)
    /\ IF IsCloser(list_of_guesses[idx], average_guess)
       THEN winner_count' = winner_count + 1
       ELSE UNCHANGED winner_count
    /\ idx' = idx + 1
    /\ UNCHANGED <<bound, list_of_guesses, average_guess, pc, out, hist, runs>>

LoopBody ==
    /\ pc = "loop"
    /\ idx <= Len(list_of_guesses)
    /\ IF IsCloser(list_of_guesses[idx], average_guess)
       THEN /\ winner_count' = winner_count + 1
            /\ out' = Append(out, Line("winner", Float(0)))
       ELSE UNCHANGED <<winner_count, out>>
    /\ idx' = idx + 1
    /\ UNCHANGED <<bound, list_of_guesses, average_guess, pc, hist, runs>>

PrintAverage ==
    /\ pc = "loop"
    /\ idx > Len(list_of_guesses)
    /\ out' = Append(out, Line("average", average_guess))
    /\ idx' = 0
    /\ pc' = "print_count"
    /\ UNCHANGED <<bound, list_of_guesses, average_guess, winner_count, hist,
                   runs>>

PrintCount ==
    /\ pc = "print_count"
    /\ out' = Append(out, Line("count", Float(winner_count)))
    /\ pc' = "print_fraction"
    /\ UNCHANGED <<bound, list_of_guesses, average_guess, winner_count, idx,
                   hist, runs>>

(* Variant: the fraction is divided with float semantics, so an empty list *)
(* prints nan instead of raising.                                          *)
PrintFractionNoRaise ==
    /\ pc = "print_fraction"
    /\ out' = Append(out, Line("fraction",
                    NpRound0(FloatDiv(winner_count, Len(list_of_guesses)))))
    /\ pc' = "idle"
    /\ UNCHANGED <<bound, list_of_guesses, average_guess, winner_count, idx,
                   hist, runs>>

(* winner_count/len(list_of_guesses) is a division of two Python ints: it  *)
(* raises ZeroDivisionError on an empty list, and the cell stops there.    *)
PrintFraction ==
    /\ pc = "print_fraction"
    /\ IF Len(list_of_guesses) = 0
       THEN out' = Append(out, Line("ZeroDivisionError", NaN))
       ELSE out' = Append(out, Line("fraction",
                       NpRound0(FloatDiv(winner_count, Len(list_of_guesses)))))
    /\ pc' = "idle"
    /\ UNCHANGED <<bound, list_of_guesses, average_guess, winner_count, idx,
                   hist, runs>>

(* The histogram cell reads the kernel's globals as they are now. *)
RunHistogramCell ==
    /\ pc = "idle"
    /\ IF "winner_count" \in bound
       THEN hist' = [kind |-> "figure", title |-> winner_count,
                     data |-> Bars(list_of_guesses), avgline |-> average_guess,
                     run |-> runs]
       ELSE hist' = [NoFigure EXCEPT !.kind = "NameError"]
    /\ UNCHANGED <<bound, list_of_guesses, average_guess, winner_count, idx,
                   pc, out, runs>>

Next ==
    \/ RunCrowdCell
    \/ CalcAverage
    \/ InitCount
    \/ LoopBody
    \/ PrintAverage
    \/ PrintCount
    \/ PrintFraction
    \/ RunHistogramCell

Spec == Init /\ [][Next]_vars

(* ------------------- vocabulary of the properties ---------------------- *)

(* The crowd cell has run to its end (normally or with a traceback). *)
Finished == pc = "idle" /\ runs > 0

(* The mean statement of the current run has executed. *)
AverageKnown == runs > 0 /\ pc # "mean"

(* The loop of the current run has been entered; Visited guesses are done. *)
LoopEntered == runs > 0 /\ pc \notin {"mean", "count"}

Visited == IF pc = "loop" THEN idx - 1 ELSE Len(list_of_guesses)

(* The sum of the guesses, front to back. *)
RECURSIVE SumFrom(_)
SumFrom(i) ==
    IF i > Len(list_of_guesses) THEN 0 ELSE list_of_guesses[i] + SumFrom(i + 1)

(* Deviations from the truth, both scaled by the number of guesses. *)
ScaledDeviation(i) == Len(list_of_guesses) * Abs(list_of_guesses[i] - TrueWeight)

ScaledConsensusDeviation == Abs(SumFrom(1) - Len(list_of_guesses) * TrueWeight)

Beats(i) == ScaledDeviation(i) < ScaledConsensusDeviation

Ties(i) == ScaledDeviation(i) = ScaledConsensusDeviation

WinnerLines == {i \in 1..Len(out) : out[i].kind = "winner"}

(* ------------------------------- C1 ------------------------------------ *)

(* C1: once the loop has visited the first k guesses, winner_count is the   *)
(* number of those guesses whose absolute deviation from the true weight   *)
(* is strictly less than the average's; a tie is not counted.              *)
C1_WinnerCountStrict ==
    (LoopEntered /\ Len(list_of_guesses) > 0)
        => winner_count = Cardinality({i \in 1..Visited : Beats(i)})

(* A finished run whose list holds a guess that ties the average without   *)
(* being the average, and a run with a winner.                             *)
C1_Witness ==
    /\ Finished
    /\ \E i \in 1..Len(list_of_guesses) :
           Ties(i) /\ Float(list_of_guesses[i]) # average_guess
    /\ \E i \in 1..Len(list_of_guesses) : Beats(i)

(* ------------------------------- C2 ------------------------------------ *)

(* C2: for a non-empty list, average_guess is the sum of all the guesses   *)
(* divided by their number.                                                *)
C2_ConsensusIsMean ==
    (AverageKnown /\ Len(list_of_guesses) > 0)
        => /\ ~average_guess.nan
           /\ average_guess.den > 0
           /\ average_guess.num * Len(list_of_guesses)
                  = SumFrom(1) * average_guess.den

(* A finished run over three guesses whose mean is not an integer. *)
C2_Witness ==
    /\ Finished
    /\ Len(list_of_guesses) = 3
    /\ ~average_guess.nan
    /\ average_guess.den = 3

(* ------------------------------- C3 ------------------------------------ *)

Kinds == {out[i].kind : i \in 1..Len(out)}

(* C3 as stated: a run on an empty list fails with InvalidInputError       *)
(* instead of producing an average, a winner count or a fraction.          *)
C3_EmptyRaisesInvalidInput ==
    (Finished /\ list_of_guesses = << >>)
        => /\ out = <<Line("InvalidInputError", NaN)>>
           /\ "average_guess" \notin bound
           /\ "winner_count" \notin bound

(* C3, amended: a run on an empty list fails with ZeroDivisionError at the *)
(* division of the winner fraction and prints no fraction; by then it has  *)
(* produced an average of nan and a winner count of 0.                     *)
C3_EmptyRaisesZeroDivision ==
    (Finished /\ list_of_guesses = << >>)
        => /\ out[Len(out)].kind = "ZeroDivisionError"
           /\ "fraction" \notin Kinds
           /\ average_guess = NaN
           /\ winner_count = 0

(* A second run, on an empty list, after a run that had a winner. *)
C3_Witness ==
    /\ Finished
    /\ runs = 2
    /\ list_of_guesses = << >>
    /\ hist.kind = "figure" /\ hist.run = 1 /\ hist.title > 0

(* ------------------------------- C4 ------------------------------------ *)

(* C4 as stated: winner_count lies in 0..len and the fraction the run      *)
(* reports is winner_count / len exactly, without rounding.                *)
C4_FractionExact ==
    (Finished /\ Len(list_of_guesses) > 0)
        => /\ winner_count \in 0..Len(list_of_guesses)
           /\ out[Len(out)] = Line("fraction",
                  FloatDiv(winner_count, Len(list_of_guesses)))

(* ------------------------------- C5 ------------------------------------ *)

(* C5: the loop takes the guesses in input order and gives each one        *)
(* verdict; after k guesses the "We have a winner!" lines are as many as   *)
(* the true verdicts among them, and as many as winner_count.              *)
C5_VerdictPerGuess ==
    (LoopEntered /\ Len(list_of_guesses) > 0)
        => /\ Visited \in 0..Len(list_of_guesses)
           /\ Cardinality(WinnerLines)
                  = Cardinality({i \in 1..Visited : Beats(i)})
           /\ Cardinality(WinnerLines) = winner_count
           /\ \A i \in WinnerLines : i <= Visited

(* In the middle of the loop: a winner announced, a loser passed, one      *)
(* guess still to visit.                                                   *)
C5_Witness ==
    /\ pc = "loop"
    /\ idx = Len(list_of_guesses)
    /\ Cardinality(WinnerLines) = 1
    /\ \E i \in 1..Visited : ~Beats(i)

(* ------------------------------- C6 ------------------------------------ *)

(* C6: when the average equals the true weight, no guess is a winner, also *)
(* when a guess equals the true weight.                                    *)
C6_TruthIsConsensus ==
    (Finished /\ average_guess = Float(TrueWeight)) => winner_count = 0

(* The average is the true weight; one guess is it, another is not. *)
C6_Witness ==
    /\ Finished
    /\ average_guess = Float(TrueWeight)
    /\ \E i \in 1..Len(list_of_guesses) : list_of_guesses[i] = TrueWeight
    /\ \E i \in 1..Len(list_of_guesses) : list_of_guesses[i] # TrueWeight

(* ------------------------------- C7 ------------------------------------ *)

(* C7: a list of one guess x gives the average x and no winner. *)
C7_SingleGuess ==
    (Finished /\ Len(list_of_guesses) = 1)
        => /\ average_guess = Float(list_of_guesses[1])
           /\ winner_count = 0

(* A single guess below the true weight, run after a run with winners. *)
C7_Witness ==
    /\ Finished
    /\ runs = 2
    /\ Len(list_of_guesses) = 1
    /\ list_of_guesses[1] < TrueWeight
    /\ hist.kind = "figure" /\ hist.run = 1 /\ hist.title > 0

(* ------------------------------- C8 ------------------------------------ *)

(* C8: whatever ran before, a finished run leaves the average and the      *)
(* winner count of its own list, and a figure drawn after any run on the   *)
(* same guesses shows the same count and the same average.                 *)
C8_DependsOnInputsOnly ==
    Finished
        => /\ average_guess = CrowdCell(list_of_guesses).average
           /\ winner_count = CrowdCell(list_of_guesses).count
           /\ winner_count = Cardinality({i \in 1..Len(list_of_guesses) : Beats(i)})
           /\ (hist.kind = "figure" /\ hist.data = Bars(list_of_guesses))
                  => /\ hist.title = winner_count
                     /\ hist.avgline = average_guess

(* The second run repeats the guesses of the first, whose figure is still  *)
(* shown, and has winners.                                                 *)
C8_Witness ==
    /\ Finished
    /\ runs = 2
    /\ hist.kind = "figure" /\ hist.run = 1
    /\ hist.data = Bars(list_of_guesses)
    /\ winner_count > 0

(* ------------------------------- C9 ------------------------------------ *)

Permutations(n) == {f \in [1..n -> 1..n] : \A i, j \in 1..n : f[i] = f[j] => i = j}

Permuted(s, f) == [i \in 1..Len(s) |-> s[f[i]]]

C10_EmptyFailsBeforeHeadlines ==
    (runs > 0 /\ list_of_guesses = << >>)
        => /\ "average" \notin Kinds
           /\ "count" \notin Kinds

(* C10, amended: on an empty list the failure comes last: the run has      *)
(* reported the average (nan) and the winner count (0) before the          *)
(* traceback, and nothing follows the traceback.                           *)
C10_EmptyFailsAfterHeadlines ==
    (runs > 0 /\ list_of_guesses = << >>)
        => /\ \A i \in 1..Len(out) :
                  out[i].kind = "ZeroDivisionError"
                      => /\ i = 3
                         /\ Len(out) = 3
                         /\ pc = "idle"
           /\ Len(out) >= 1 => out[1] = Line("average", NaN)
           /\ Len(out) >= 2 => out[2] = Line("count", Float(0))
           /\ pc = "idle" => Len(out) = 3 /\ out[3].kind = "ZeroDivisionError"

(* The traceback of a run on an empty list is on the screen. *)
C10_Witness ==
    /\ pc = "idle"
    /\ list_of_guesses = << >>
    /\ "ZeroDivisionError" \in Kinds

(* ------------------------------- C11 ----------------------------------- *)

====
